---------------------------- MODULE Spec2Model ----------------------------
(***************************************************************************)
(* Model of the quantum-computation tool server (src/server.py): the       *)
(* service registry, the tool boundary handle_call_tool, the chain         *)
(* classify -> build -> execute -> format of handle_quantum_compute, and   *)
(* the keyword classifier process_query_locally.                           *)
(***************************************************************************)
EXTENDS Integers, Sequences, FiniteSets, TLC

(***************************************************************************)
(* Bounds of the model.                                                    *)
(***************************************************************************)
\* number of fragments a generated query text is concatenated from
MaxParts == 3
\* largest explicit shot count a request asks for
MaxShots == 2
\* largest number of distinct bitstrings one backend run reports
MaxObserved == 2
\* largest number of tool calls received and waiting to be started
MaxWaiting == 2

(***************************************************************************)
(* Program constants.                                                      *)
(***************************************************************************)
\* arguments.get("shots", 1024)
DefaultShots == 1024
\* num_qubits = 3  # default
DefaultRandomQubits == 3
\* min(int(numbers[0]), 5)
RandomQubitCap == 5
\* QuantumCircuit(2, 2) and the num_qubits=2 of the Bell requests
BellQubits == 2

(***************************************************************************)
(* Text helpers: str.lower(), the `in` substring test, re.findall(r'\d+'). *)
(***************************************************************************)
UpperLetters == "ABCDEFGHIJKLMNOPQRSTUVWXYZ"
LowerLetters == "abcdefghijklmnopqrstuvwxyz"
Digits == "0123456789"

CharAt(s, i) == SubSeq(s, i, i)

\* str.lower() on one character
LowerChar(c) ==
  IF \E i \in 1..Len(UpperLetters) : CharAt(UpperLetters, i) = c
    THEN CharAt(LowerLetters, CHOOSE i \in 1..Len(UpperLetters) : CharAt(UpperLetters, i) = c)
    ELSE c

\* query.lower()
RECURSIVE Lower(_)
Lower(s) ==
  IF Len(s) = 0 THEN ""
  ELSE LowerChar(CharAt(s, 1)) \o Lower(SubSeq(s, 2, Len(s)))

\* word in text
Contains(text, word) ==
  \E i \in 1..(Len(text) - Len(word) + 1) : SubSeq(text, i, i + Len(word) - 1) = word

\* any(word in text for word in words)
ContainsAny(text, words) == \E w \in words : Contains(text, w)

IsDigit(c) == \E d \in 1..Len(Digits) : CharAt(Digits, d) = c

DigitValue(c) == (CHOOSE d \in 1..Len(Digits) : CharAt(Digits, d) = c) - 1

\* int() of a run of decimal digits
RECURSIVE IntOf(_)
IntOf(s) ==
  IF Len(s) = 0 THEN 0
  ELSE 10 * IntOf(SubSeq(s, 1, Len(s) - 1)) + DigitValue(CharAt(s, Len(s)))

\* the end of the run of digits that starts at position i
RECURSIVE RunEnd(_, _)
RunEnd(s, i) ==
  IF i < Len(s) /\ IsDigit(CharAt(s, i + 1)) THEN RunEnd(s, i + 1) ELSE i

\* re.findall(r'\d+', s): the matches left to right, each a maximal run
RECURSIVE FindAllFrom(_, _)
FindAllFrom(s, i) ==
  IF i > Len(s) THEN << >>
  ELSE IF IsDigit(CharAt(s, i))
    THEN <<SubSeq(s, i, RunEnd(s, i))>> \o FindAllFrom(s, RunEnd(s, i) + 1)
    ELSE FindAllFrom(s, i + 1)

FindAllNumbers(s) == FindAllFrom(s, 1)

Min(a, b) == IF a <= b THEN a ELSE b

(***************************************************************************)
(* QuantumOperationType and QuantumComputationRequest.                     *)
(***************************************************************************)
QuantumOperationType ==
  {"bell_state", "qft", "grover", "teleportation", "vqe", "qaoa", "custom",
   "random", "deutsch_jozsa", "bernstein_vazirani"}

NoParameters == {}

QuantumComputationRequest(q, op, params, nq) ==
  [query |-> q, operation_type |-> op, parameters |-> params, num_qubits |-> nq]

NoRequest == QuantumComputationRequest("", "none", NoParameters, 0)

BellWords == {"bell", "entangl", "epr"}
RandomWords == {"random", "rng", "number"}

\* a plausible slip: the random family tested before the Bell family
process_query_locally_random_first(q) ==
  LET query_lower == Lower(q)
      numbers == FindAllNumbers(q)
  IN IF ContainsAny(query_lower, RandomWords)
       THEN QuantumComputationRequest(q, "random", NoParameters,
              IF Len(numbers) > 0 THEN Min(IntOf(numbers[1]), RandomQubitCap)
              ELSE DefaultRandomQubits)
       ELSE QuantumComputationRequest(q, "bell_state", NoParameters, BellQubits)

process_query_locally(q) ==
  LET query_lower == Lower(q)
      numbers == FindAllNumbers(q)
  IN IF ContainsAny(query_lower, BellWords)
       THEN QuantumComputationRequest(q, "bell_state", NoParameters, BellQubits)
     ELSE IF ContainsAny(query_lower, RandomWords)
       THEN QuantumComputationRequest(q, "random", NoParameters,
              IF Len(numbers) > 0 THEN Min(IntOf(numbers[1]), RandomQubitCap)
              ELSE DefaultRandomQubits)
     ELSE QuantumComputationRequest(q, "bell_state", NoParameters, BellQubits)

(***************************************************************************)
(* Circuits: qiskit's QuantumCircuit as the builder uses it.  A builder    *)
(* call yields [ok |-> TRUE, circuit |-> c] or [ok |-> FALSE, error |-> e].*)
(***************************************************************************)
QuantumCircuit(nq, ncl) == [num_qubits |-> nq, num_clbits |-> ncl, data |-> << >>]

NoCircuit == [num_qubits |-> -1, num_clbits |-> -1, data |-> << >>]

Gate(gname, qubits) == [name |-> gname, qubits |-> qubits]

Append1(c, g) == [c EXCEPT !.data = Append(@, g)]

AllQubits(c) == [i \in 1..c.num_qubits |-> i - 1]

\* circuit.h(i) for i in range(n), on a circuit that has those qubits
RECURSIVE HadamardRange(_, _)
HadamardRange(c, n) ==
  IF n <= 0 THEN c ELSE Append1(HadamardRange(c, n - 1), Gate("h", <<n - 1>>))

\* circuit.barrier()
barrier(c) == Append1(c, Gate("barrier", AllQubits(c)))

RECURSIVE MeasureRange(_, _)
MeasureRange(c, n) ==
  IF n <= 0 THEN c ELSE Append1(MeasureRange(c, n - 1), Gate("measure", <<n - 1>>))

\* circuit.measure_all(): a barrier, one measurement per qubit, into a new
\* classical register "meas" of num_qubits bits
measure_all(c) ==
  [MeasureRange(barrier(c), c.num_qubits) EXCEPT !.num_clbits = @ + c.num_qubits]

\* the fixed 2-qubit Fourier transform gate sequence, on qubits 0 and 1
apply_2qubit_qft(c) ==
  Append1(Append1(Append1(Append1(c,
    Gate("h", <<1>>)), Gate("cp", <<1, 0>>)), Gate("h", <<0>>)), Gate("swap", <<0, 1>>))

InputStates ==
  {"superposition_0_2", "superposition_1_3", "superposition_0_1", "equal_superposition"}

\* a plausible slip: the two-state patterns tested in another order
extract_input_state_from_query_0_1_first(q) ==
  IF Contains(q, "|0⟩ + |1⟩") \/ Contains(q, "|0> + |1>") THEN "superposition_0_1"
  ELSE IF Contains(q, "|00⟩ + |10⟩") \/ Contains(q, "|00> + |10>") THEN "superposition_0_2"
  ELSE IF Contains(q, "|0⟩ + |2⟩") \/ Contains(q, "|0> + |2>") THEN "superposition_0_2"
  ELSE IF Contains(q, "|01⟩ + |11⟩") \/ Contains(q, "|01> + |11>") THEN "superposition_1_3"
  ELSE IF Contains(Lower(q), "equal superposition") THEN "equal_superposition"
  ELSE "superposition_0_2"

\* each pattern in its two spellings of the ket, "⟩" and ">"
extract_input_state_from_query(q) ==
  IF Contains(q, "|00⟩ + |10⟩") \/ Contains(q, "|00> + |10>") THEN "superposition_0_2"
  ELSE IF Contains(q, "|0⟩ + |2⟩") \/ Contains(q, "|0> + |2>") THEN "superposition_0_2"
  ELSE IF Contains(q, "|01⟩ + |11⟩") \/ Contains(q, "|01> + |11>") THEN "superposition_1_3"
  ELSE IF Contains(q, "|0⟩ + |1⟩") \/ Contains(q, "|0> + |1>") THEN "superposition_0_1"
  ELSE IF Contains(Lower(q), "equal superposition") THEN "equal_superposition"
  ELSE "superposition_0_2"

\* the state-preparation stage of the Fourier-transform circuit
PrepareInputState(c, tag) ==
  IF tag = "superposition_1_3" THEN Append1(Append1(c, Gate("x", <<0>>)), Gate("h", <<1>>))
  ELSE IF tag = "superposition_0_1" THEN Append1(c, Gate("h", <<1>>))
  ELSE IF tag = "equal_superposition" THEN Append1(Append1(c, Gate("h", <<0>>)), Gate("h", <<1>>))
  ELSE Append1(c, Gate("h", <<0>>))

create_qft_circuit_with_input_state(request) ==
  measure_all(apply_2qubit_qft(barrier(
    PrepareInputState(QuantumCircuit(2, 2),
                      extract_input_state_from_query(request.query)))))

Built(c) == [ok |-> TRUE, circuit |-> c, error |-> ""]
BuildError(e) == [ok |-> FALSE, circuit |-> NoCircuit, error |-> e]

\* a plausible slip: the else branch creating the default circuit it comments on
UnhandledKind_default_circuit(request) ==
  Built(measure_all(apply_2qubit_qft(barrier(
    Append1(QuantumCircuit(2, 2), Gate("h", <<0>>))))))

\* the else branch of create_quantum_circuit: circuit.h(0) on a local that no
\* branch has assigned
UnhandledKind(request) ==
  BuildError("UnboundLocalError: local variable 'circuit' referenced before assignment")

create_quantum_circuit(request) ==
  IF request.operation_type = "qft"
    THEN Built(create_qft_circuit_with_input_state(request))
  ELSE IF request.operation_type = "bell_state"
    THEN Built(measure_all(Append1(Append1(QuantumCircuit(2, 2),
                 Gate("h", <<0>>)), Gate("cx", <<0, 1>>))))
  ELSE IF request.operation_type = "random"
    THEN IF request.num_qubits < 0
           THEN BuildError("CircuitError: register size must be non-negative")
         ELSE IF request.num_qubits < 2
           THEN BuildError("CircuitError: qubit index out of range")
         ELSE Built(measure_all(apply_2qubit_qft(barrier(
                HadamardRange(QuantumCircuit(request.num_qubits, request.num_qubits),
                              request.num_qubits)))))
  ELSE UnhandledKind(request)

(***************************************************************************)
(* The outside world: the tool calls that arrive, the replies of the       *)
(* language model, the remote backends and what a backend run reports.     *)
(***************************************************************************)
ToolNames == {"quantum_compute", "list_quantum_backends", "quantum_circuit_info", "no_such_tool"}

\* arguments as the transport hands them over: None, or a dict that may lack keys
Arguments(isNone, hasQuery, q, hasShots, n) ==
  [is_none |-> isNone, has_query |-> hasQuery, query |-> q,
   has_shots |-> hasShots, shots |-> n]

NoArguments == Arguments(TRUE, FALSE, "", FALSE, 0)

RequestQueries ==
  {"", "Create a Bell state to demonstrate quantum entanglement",
   "Generate quantum random numbers using 3 qubits", "RNG 0",
   "Apply QFT to |01> + |11>"}

AllArguments ==
  {NoArguments}
    \cup {Arguments(FALSE, FALSE, "", FALSE, 0)}
    \cup {Arguments(FALSE, TRUE, q, FALSE, 0) : q \in RequestQueries}
    \cup {Arguments(FALSE, TRUE, q, TRUE, n) : q \in RequestQueries, n \in 1..MaxShots}

\* the arguments of the tools that read none of them
OtherArguments == {NoArguments, Arguments(FALSE, FALSE, "", FALSE, 0)}

\* what chat.completions.create does: raise, or answer with some content
LMFields == {"operation_type", "num_qubits", "parameters"}

LMReply(raises, isJson, fields, op, nq, params) ==
  [raises |-> raises, is_json |-> isJson, fields |-> fields,
   operation_type |-> op, num_qubits |-> nq, parameters |-> params]

NoReply == LMReply(FALSE, FALSE, {}, "", 0, NoParameters)

LMReplies ==
  {LMReply(TRUE, FALSE, {}, "", 0, NoParameters),
   LMReply(FALSE, FALSE, {}, "not json", 0, NoParameters),
   LMReply(FALSE, TRUE, LMFields, "shor", 2, NoParameters)}
    \cup {LMReply(FALSE, TRUE, LMFields \ {f}, "random", 3, NoParameters) : f \in LMFields}
    \cup {LMReply(FALSE, TRUE, LMFields, op, 2, NoParameters) : op \in QuantumOperationType}
    \cup {LMReply(FALSE, TRUE, LMFields, "random", 1, NoParameters)}
    \cup {LMReply(FALSE, TRUE, LMFields, "qft", 2, {<<"input_state", "superposition_0_1">>})}

\* the remote service's backends
Backend(bname, operational, isSimulator, pending, qubits) ==
  [name |-> bname, operational |-> operational, simulator |-> isSimulator,
   pending_jobs |-> pending, num_qubits |-> qubits]

NoBackend == Backend("", FALSE, FALSE, 0, 0)

Catalogue ==
  {Backend("ibm_brisbane", TRUE, FALSE, 3, 127), Backend("ibm_kyoto", TRUE, FALSE, 1, 127),
   Backend("ibm_osaka", FALSE, FALSE, 0, 133),
   Backend("ibmq_qasm_simulator", TRUE, TRUE, 0, 32)}

Channels == <<"ibm_quantum_platform", "ibm_cloud", "ibm_quantum">>

\* the bitstrings of a given width
RECURSIVE Bitstrings(_)
Bitstrings(n) ==
  IF n <= 0 THEN {""}
  ELSE {b \o s : b \in {"0", "1"}, s \in Bitstrings(n - 1)}

RECURSIVE Repeat(_, _)
Repeat(b, n) == IF n <= 0 THEN "" ELSE b \o Repeat(b, n - 1)

\* the bitstrings the modelled runs report: the all-zero one, the all-one one
\* and a mixed one
Observable(n) ==
  {b \in Bitstrings(n) : b \in {Repeat("0", n), Repeat("1", n), "1" \o Repeat("0", n - 1)}}

RECURSIVE SumOver(_, _)
SumOver(f, S) ==
  IF S = {} THEN 0
  ELSE LET x == CHOOSE y \in S : TRUE IN f[x] + SumOver(f, S \ {x})

Total(counts) == SumOver(counts, DOMAIN counts)

\* the count values a run of n shots is let to report for one bitstring
CountValues(n) ==
  IF n <= MaxShots + 1 THEN 1..n ELSE {1, n \div 2, n - 2, n - 1, n}

\* the subsets of S with at most k elements
RECURSIVE SubsetsUpTo(_, _)
SubsetsUpTo(S, k) ==
  IF k <= 0 THEN {{}}
  ELSE {{}} \cup {T \cup {x} : x \in S, T \in SubsetsUpTo(S, k - 1)}

\* a well-behaved backend: each of the n shots yields one bitstring of the
\* measured register
Histograms(c, n) ==
  UNION {{h \in [S -> CountValues(n)] : Total(h) = n} :
           S \in SubsetsUpTo(Observable(c.num_qubits), MaxObserved) \ {{}}}

\* a key of result.get_counts() of the local run: the bits of every classical
\* register, the register added last leftmost and a space between registers;
\* the register the constructor declared is never written
LocalKey(c, b) ==
  IF c.num_clbits > c.num_qubits
    THEN b \o " " \o Repeat("0", c.num_clbits - c.num_qubits)
    ELSE b

\* what the local simulator reports: result.get_counts()
LocalHistograms(c, n) ==
  {[k \in {LocalKey(c, b) : b \in DOMAIN h} |->
      h[CHOOSE b \in DOMAIN h : LocalKey(c, b) = k]] : h \in Histograms(c, n)}

NoCounts == [b \in {} |-> 0]

(***************************************************************************)
(* State.                                                                  *)
(***************************************************************************)
VARIABLES
  environ,              \* which of OPENAI_API_KEY, IBM_QUANTUM_TOKEN are set
  openai_client,        \* global: FALSE is None
  ibm_service,          \* global: "none" is None, else the channel of the service
  simulator,            \* global: FALSE is None
  pc,                   \* where the tool call in progress stands
  name,                 \* handle_call_tool's name
  arguments,            \* handle_call_tool's arguments
  query,                \* handle_quantum_compute's query
  shots,                \* handle_quantum_compute's shots
  initCaller,           \* which call of initialize_services is running
  channel,              \* initialize_services' loop index into Channels
  log,                  \* what the running call of initialize_services has logged
  lmReply,              \* what the language model answered in this call
  computation_request,  \* handle_quantum_compute's computation_request
  circuit,              \* handle_quantum_compute's circuit
  backend,              \* execute_quantum's backend
  results,              \* handle_quantum_compute's results
  response,             \* what handle_call_tool gave back to its caller
  steps,                \* the steps this tool call has taken, in order
  listing,              \* execute_quantum: what ibm_service.backends() returned
  input_state,          \* the tag extract_input_state_from_query returned
  waiting,              \* event loop: the tool calls received and not yet started
  suspended             \* event loop: the frames of the calls parked at an await

vars ==
  <<environ, openai_client, ibm_service, simulator, pc, name, arguments, query, shots,
    initCaller, channel, log, lmReply, computation_request, circuit, backend, results,
    response, steps, listing, input_state, waiting, suspended>>

scheduler == <<waiting, suspended>>
registry == <<openai_client, ibm_service, simulator>>
locals == <<query, shots, lmReply, computation_request, circuit, backend, listing, results>>

(***************************************************************************)
(* Results and responses.                                                  *)
(***************************************************************************)
HardwareType == "IBM Quantum Hardware"
LocalType == "Local Simulator"

ExecutionResult(bname, btype, n, counts) ==
  [backend |-> bname, backend_type |-> btype, shots |-> n, counts |-> counts]

NoResults == ExecutionResult("", "", 0, NoCounts)

Report(header, request, res, lines, notes) ==
  [header |-> header, query |-> request.query, operation |-> request.operation_type,
   backend |-> res.backend, backend_type |-> res.backend_type, shots |-> res.shots,
   lines |-> lines, notes |-> notes, input_state |-> "", analysis |-> ""]

NoReport ==
  [header |-> "", query |-> "", operation |-> "", backend |-> "", backend_type |-> "",
   shots |-> 0, lines |-> << >>, notes |-> {}, input_state |-> "", analysis |-> ""]

\* a list holding one TextContent
TextContent(text) == [kind |-> "text", text |-> text, report |-> NoReport, at |-> ""]
ReportContent(report) == [kind |-> "text", text |-> report.header, report |-> report, at |-> ""]
\* an exception leaving handle_call_tool
Raised(e, at) == [kind |-> "raised", text |-> e, report |-> NoReport, at |-> at]
NoResponse == [kind |-> "none", text |-> "", report |-> NoReport, at |-> ""]

MissingQueryText == "Missing required parameter: query"
InitFailedText ==
  "Failed to initialize quantum services - check that qiskit-aer is installed"

\* a plausible slip: no try/except around the dispatch
handle_call_tool_no_except(e, at) == Raised(e, at)

\* a plausible slip: the message returned without its prefix
handle_call_tool_except_no_prefix(e, at) ==
  [kind |-> "text", text |-> e, report |-> NoReport, at |-> at]

\* handle_call_tool's except clause
handle_call_tool_except(e, at) ==
  [kind |-> "text", text |-> "Error: " \o e, report |-> NoReport, at |-> at]

(***************************************************************************)
(* The pure parts of the handlers.                                         *)
(***************************************************************************)
\* arguments.get("query", "")
get_query(args) == IF args.has_query THEN args.query ELSE ""

\* a plausible slip: the default used whatever the caller asked for
get_shots_default_only(args) == DefaultShots

\* arguments.get("shots", 1024)
get_shots(args) == IF args.has_shots THEN args.shots ELSE DefaultShots

\* a plausible slip: the guard dropped
not_query_unchecked(q) == FALSE

\* `not query`
not_query(q) == q = ""

Classified(req) == [ok |-> TRUE, request |-> req, error |-> ""]
ClassifyError(e) == [ok |-> FALSE, request |-> NoRequest, error |-> e]

\* whether the try block of process_query_with_openai raises on this reply
ReplyRaises(r) ==
  \/ r.raises
  \/ ~r.is_json
  \/ "operation_type" \notin r.fields
  \/ r.operation_type \notin QuantumOperationType
  \/ "parameters" \notin r.fields
  \/ "num_qubits" \notin r.fields

\* a plausible slip: only the network failure is caught, a bad reply escapes
process_query_with_openai_narrow_except(q, client, r) ==
  IF client
    THEN IF r.raises THEN Classified(process_query_locally(q))
         ELSE IF ReplyRaises(r) THEN ClassifyError("ValueError: bad reply")
         ELSE Classified(QuantumComputationRequest(q, r.operation_type, r.parameters,
                                                   r.num_qubits))
    ELSE Classified(process_query_locally(q))

process_query_with_openai(q, client, r) ==
  IF client /\ ~ReplyRaises(r)
    THEN Classified(QuantumComputationRequest(q, r.operation_type, r.parameters,
                                              r.num_qubits))
    ELSE Classified(process_query_locally(q))

\* a plausible slip: the remote tier entered whatever the registry holds
has_ibm_service_always(service) == TRUE

\* `if ibm_service:`
has_ibm_service(service) == service # "none"

\* a plausible slip: the filter letting simulators through
EligibleBackends_with_simulators(bs) == {b \in bs : b.operational}

\* the backends the remote tier keeps, of a listing
EligibleBackends(bs) == {b \in bs : b.operational /\ ~b.simulator}

\* backends.sort(key=pending_jobs); backends[0]
LeastBusy(bs) == CHOOSE b \in bs : \A o \in bs : b.pending_jobs <= o.pending_jobs

\* a plausible slip: the hardware result tagged as the local simulator's
RemoteExecutionResult_local_tag(b, n, counts) ==
  ExecutionResult(b.name, LocalType, n, counts)

\* the dict the remote tier returns
RemoteExecutionResult(b, n, counts) ==
  ExecutionResult(b.name, HardwareType, n, counts)

\* a plausible slip: the local result named after another simulator
LocalExecutionResult_other_name(n, counts) ==
  ExecutionResult("qasm_simulator", LocalType, n, counts)

\* the dict the local tier returns
LocalExecutionResult(n, counts) ==
  ExecutionResult("aer_simulator", LocalType, n, counts)

RECURSIVE Orderings(_)
Orderings(S) ==
  IF S = {} THEN {<< >>}
  ELSE UNION {{<<x>> \o p : p \in Orderings(S \ {x})} : x \in S}

\* a plausible slip: the items written in the order of the dict, unsorted
SortedLines_unsorted(counts) ==
  {[i \in 1..Len(p) |-> <<p[i], counts[p[i]]>>] : p \in Orderings(DOMAIN counts)}

\* sorted(counts.items(), key=lambda x: x[1], reverse=True): the order of equal
\* counts is the dict's, which the backend decides
SortedLines(counts) ==
  {[i \in 1..Len(p) |-> <<p[i], counts[p[i]]>>] :
     p \in {q \in Orderings(DOMAIN counts) :
              \A i \in 1..(Len(q) - 1) : counts[q[i]] >= counts[q[i + 1]]}}

\* request.parameters.get('input_state', 'superposition_0_2')
get_input_state(request) ==
  IF \E kv \in request.parameters : kv[1] = "input_state"
    THEN (CHOOSE kv \in request.parameters : kv[1] = "input_state")[2]
    ELSE "superposition_0_2"

\* the descriptions, each named by its words after the formula of the state
get_input_state_description(tag) ==
  IF tag = "superposition_0_2"
    THEN "States 0 and 2"
  ELSE IF tag = "superposition_1_3"
    THEN "States 1 and 3"
  ELSE IF tag = "superposition_0_1"
    THEN "Single qubit superposition"
  ELSE IF tag = "equal_superposition"
    THEN "All states"
  ELSE "Custom superposition state"

\* the narratives, each named by a line only it contains; `counts` is not read
analyze_qft_frequencies(tag, counts) ==
  IF tag = "superposition_0_2"
    THEN "Only DC and Nyquist frequency components are present."
  ELSE IF tag = "superposition_1_3"
    THEN "Shows odd-parity frequency components only"
  ELSE IF tag = "equal_superposition"
    THEN "Pure DC component only"
  ELSE "Custom state frequency analysis not available."

QFTOperationTitle == "2-Qubit Quantum Fourier Transform (QFT)"

format_qft_results(request, res, lines) ==
  [Report("Quantum Fourier Transform Results", request, res, lines,
          {get_input_state(request)})
     EXCEPT !.operation = QFTOperationTitle,
            !.input_state = get_input_state_description(get_input_state(request)),
            !.analysis = analyze_qft_frequencies(get_input_state(request), res.counts)]

format_general_results(request, res, lines) ==
  Report("Quantum Computation Results", request, res, lines,
         (IF request.operation_type = "bell_state" THEN {"Bell state created successfully"}
          ELSE IF request.operation_type = "random" /\ Total(res.counts) > 0
            THEN {"Entropy"}
          ELSE IF request.operation_type = "grover" THEN {"Grover's algorithm executed"}
          ELSE {})
         \cup (IF res.backend_type = HardwareType THEN {"SPECIAL"} ELSE {}))

format_results(request, res, lines) ==
  IF request.operation_type = "qft" THEN format_qft_results(request, res, lines)
  ELSE format_general_results(request, res, lines)

(***************************************************************************)
(* The state machine.                                                      *)
(***************************************************************************)
Init ==
  /\ environ \in [OPENAI_API_KEY : BOOLEAN, IBM_QUANTUM_TOKEN : BOOLEAN]
  /\ openai_client = FALSE
  /\ ibm_service = "none"
  /\ simulator = FALSE
  /\ pc = "idle"
  /\ name = ""
  /\ arguments = NoArguments
  /\ query = ""
  /\ shots = 0
  /\ initCaller = ""
  /\ channel = 0
  /\ log = << >>
  /\ lmReply = NoReply
  /\ computation_request = NoRequest
  /\ circuit = NoCircuit
  /\ backend = NoBackend
  /\ results = NoResults
  /\ response = NoResponse
  /\ steps = << >>
  /\ listing = {}
  /\ input_state = ""
  /\ waiting = 0
  /\ suspended = << >>

Idle == pc = "idle"

\* the environment of the process changes between two tool calls
SetEnviron ==
  /\ Idle
  /\ environ' \in [OPENAI_API_KEY : BOOLEAN, IBM_QUANTUM_TOKEN : BOOLEAN] \ {environ}
  /\ UNCHANGED <<scheduler, input_state, registry, pc, name, arguments, locals, initCaller,
               channel, log, response, steps>>

\* a tool call arrives
CallTool ==
  /\ Idle
  /\ \E n \in ToolNames :
       /\ name' = n
       /\ arguments' \in IF n = "quantum_compute" THEN AllArguments ELSE OtherArguments
  /\ pc' = "call"
  /\ UNCHANGED <<scheduler, input_state, environ, registry, locals, initCaller, channel, log, response, steps>>

\* the frames of the running call, as the event loop keeps them while the
\* call is parked
CurrentFrame ==
  [pc |-> pc, name |-> name, arguments |-> arguments, query |-> query, shots |-> shots,
   initCaller |-> initCaller, channel |-> channel, log |-> log, lmReply |-> lmReply,
   computation_request |-> computation_request, circuit |-> circuit,
   backend |-> backend, listing |-> listing, results |-> results, steps |-> steps]

\* no call is running
NoFrame ==
  [pc |-> "idle", name |-> "", arguments |-> NoArguments, query |-> "", shots |-> 0,
   initCaller |-> "", channel |-> 0, log |-> << >>, lmReply |-> NoReply,
   computation_request |-> NoRequest, circuit |-> NoCircuit, backend |-> NoBackend,
   listing |-> {}, results |-> NoResults, steps |-> << >>]

\* the event loop goes on with the frames f
Resume(f) ==
  /\ pc' = f.pc
  /\ name' = f.name
  /\ arguments' = f.arguments
  /\ query' = f.query
  /\ shots' = f.shots
  /\ initCaller' = f.initCaller
  /\ channel' = f.channel
  /\ log' = f.log
  /\ lmReply' = f.lmReply
  /\ computation_request' = f.computation_request
  /\ circuit' = f.circuit
  /\ backend' = f.backend
  /\ listing' = f.listing
  /\ results' = f.results
  /\ steps' = f.steps

\* the caller has the response; the frames of the call are gone, and a call
\* that was parked goes on
Return ==
  /\ pc = "done"
  /\ response' = NoResponse
  /\ IF suspended = << >>
       THEN Resume(NoFrame) /\ UNCHANGED suspended
       ELSE Resume(Head(suspended)) /\ suspended' = Tail(suspended)
  /\ UNCHANGED <<waiting, input_state, environ, registry>>

\* an exception raised inside the try block of handle_call_tool
Raise(e, at) ==
  /\ response' = handle_call_tool_except(e, at)
  /\ pc' = "done"

\* a handler returns its list of text content
ReturnContent(content) ==
  /\ response' = content
  /\ pc' = "done"

\* handle_call_tool: the None arguments, the dispatch on the name
HandleCallTool ==
  /\ pc = "call"
  /\ arguments' = IF arguments.is_none THEN Arguments(FALSE, FALSE, "", FALSE, 0)
                  ELSE arguments
  /\ steps' = Append(steps, "call_tool")
  /\ IF name = "quantum_compute"
       THEN pc' = "quantum_compute" /\ UNCHANGED response
     ELSE IF name = "list_quantum_backends"
       THEN pc' = "list_backends" /\ UNCHANGED response
     ELSE Raise("Unknown tool: " \o name, "call_tool")
  /\ UNCHANGED <<scheduler, input_state, environ, registry, name, locals, initCaller, channel, log>>

\* handle_quantum_compute up to its first call of initialize_services
HandleQuantumCompute ==
  /\ pc = "quantum_compute"
  /\ query' = get_query(arguments)
  /\ shots' = get_shots(arguments)
  /\ IF not_query(get_query(arguments))
       THEN /\ ReturnContent(TextContent(MissingQueryText))
            /\ UNCHANGED <<initCaller, steps>>
       ELSE /\ pc' = "init_simulator"
            /\ initCaller' = "quantum_compute_1"
            /\ steps' = Append(steps, "initialize_services")
            /\ UNCHANGED response
  /\ UNCHANGED <<scheduler, input_state, environ, registry, name, arguments, channel, log, lmReply,
                 computation_request, circuit, backend, listing, results>>

\* initialize_services returns True (line 184): its frame is gone and its caller
\* goes on
InitReturnsTrue ==
  /\ pc = "init_return"
  /\ channel' = 0
  /\ log' = << >>
  /\ IF initCaller = "quantum_compute_1"
       THEN /\ pc' = "init_simulator"
            /\ initCaller' = "quantum_compute_2"
            /\ steps' = Append(steps, "initialize_services")
     ELSE IF initCaller = "quantum_compute_2"
       THEN /\ pc' = "classify"
            /\ initCaller' = ""
            /\ UNCHANGED steps
     ELSE /\ pc' = "list"
          /\ initCaller' = ""
          /\ UNCHANGED steps
  /\ UNCHANGED <<scheduler, input_state, environ, registry, name, arguments, locals, response>>

\* a plausible slip: the caller goes on without looking at the return value
InitReturnsFalse_ignored ==
  /\ pc' = IF initCaller = "list_backends" THEN "list" ELSE "classify"
  /\ initCaller' = ""
  /\ UNCHANGED response

\* initialize_services returns False and its caller returns the failure text
InitReturnsFalse ==
  /\ ReturnContent(TextContent(
       IF initCaller = "list_backends" THEN "Failed to initialize services"
       ELSE InitFailedText))
  /\ initCaller' = ""

\* initialize_services: simulator = AerSimulator(), or return False
InitializeSimulator ==
  /\ pc = "init_simulator"
  /\ \E constructed \in BOOLEAN :
       IF constructed
         THEN /\ simulator' = TRUE
              /\ pc' = "init_openai"
              /\ steps' = Append(steps, "init:simulator")
              /\ log' = Append(log, "Local simulator initialized")
              /\ UNCHANGED <<response, initCaller>>
         ELSE /\ UNCHANGED simulator
              /\ steps' = Append(steps, "init:simulator_failed")
              /\ log' = << >>
              /\ InitReturnsFalse
  /\ UNCHANGED <<scheduler, input_state, environ, openai_client, ibm_service, name, arguments, locals, channel>>

\* initialize_services: the optional language-model client and its probe
InitializeOpenAI ==
  /\ pc = "init_openai"
  /\ IF environ.OPENAI_API_KEY
       THEN \E outcome \in {"constructor_raises", "probe_raises", "ok"} :
              /\ openai_client' = IF outcome = "constructor_raises" THEN openai_client
                                  ELSE TRUE
              /\ log' = Append(log, IF outcome = "ok" THEN "OpenAI initialized successfully"
                                    ELSE "OpenAI initialization failed")
       ELSE UNCHANGED <<openai_client, log>>
  /\ IF environ.IBM_QUANTUM_TOKEN
       THEN pc' = "init_ibm" /\ channel' = 1
       ELSE pc' = "init_return" /\ UNCHANGED channel
  /\ UNCHANGED <<scheduler, input_state, environ, ibm_service, simulator, name, arguments, locals, response,
                 initCaller, steps>>

\* the logger lines of the loop over the channels
TryingLine(ch) == "Trying IBM channel: " \o ch
InitializedLine(ch) == "IBM Quantum initialized with " \o ch
FailedLine(ch) == "IBM channel " \o ch \o " failed"

\* a plausible slip: no `break` after the channel that worked
LoopEnds_no_break(outcome, i) == i = Len(Channels)

\* the loop over the channels ends at `break` or after the last channel
LoopEnds(outcome, i) == outcome = "ok" \/ i = Len(Channels)

\* initialize_services: one turn of the loop over the channels
InitializeIBM ==
  /\ pc = "init_ibm"
  /\ \E outcome \in {"save_account_raises", "constructor_raises", "backends_raises", "ok"} :
       /\ ibm_service' = IF outcome \in {"save_account_raises", "constructor_raises"}
                           THEN ibm_service
                         ELSE Channels[channel]
       /\ log' = log \o <<TryingLine(Channels[channel]),
                          IF outcome = "ok" THEN InitializedLine(Channels[channel])
                          ELSE FailedLine(Channels[channel])>>
       /\ IF LoopEnds(outcome, channel)
            THEN pc' = "init_return" /\ UNCHANGED channel
            ELSE channel' = channel + 1 /\ UNCHANGED pc
  /\ UNCHANGED <<scheduler, input_state, environ, openai_client, simulator, name, arguments, locals, response,
                 initCaller, steps>>

\* process_query_with_openai
Classify ==
  /\ pc = "classify"
  /\ \E r \in (IF openai_client THEN LMReplies ELSE {NoReply}) :
       LET c == process_query_with_openai(query, openai_client, r)
       IN /\ lmReply' = r
          /\ steps' = Append(steps, "classify")
          /\ IF c.ok
               THEN /\ computation_request' = c.request
                    /\ pc' = "build"
                    /\ UNCHANGED response
               ELSE /\ Raise(c.error, "classify")
                    /\ UNCHANGED computation_request
  /\ UNCHANGED <<scheduler, input_state, environ, registry, name, arguments, query, shots, initCaller, channel, log,
                 circuit, backend, listing, results>>

\* create_quantum_circuit
Build ==
  /\ pc = "build"
  /\ steps' = Append(steps, "build")
  /\ LET b == create_quantum_circuit(computation_request)
     IN IF b.ok
          THEN circuit' = b.circuit /\ pc' = "execute" /\ UNCHANGED response
          ELSE Raise(b.error, "build") /\ UNCHANGED circuit
  /\ UNCHANGED <<scheduler, input_state, environ, registry, name, arguments, query, shots, initCaller, channel, log,
                 lmReply, computation_request, backend, listing, results>>

\* execute_quantum: `if ibm_service:`
Execute ==
  /\ pc = "execute"
  /\ steps' = Append(steps, "execute")
  /\ pc' = IF has_ibm_service(ibm_service) THEN "remote_select" ELSE "local_run"
  /\ UNCHANGED <<scheduler, input_state, environ, registry, name, arguments, locals, initCaller, channel, log, response>>

\* a plausible slip: the failure of the remote tier raised to the caller
FallThrough_raises == Raise("IBM Quantum execution failed", "execute")

\* a plausible slip: the remote tier tried again after a failure
FallThrough_retries == pc' = "remote_select" /\ UNCHANGED response

\* the remote tier gives up (its except clause, or no eligible backend) and
\* control reaches the local tier
FallThrough == pc' = "local_run" /\ UNCHANGED response

\* the remote tier: list, filter, sort, pick
RemoteSelect ==
  /\ pc = "remote_select"
  /\ steps' = Append(steps, "remote:backends")
  /\ \/ FallThrough /\ UNCHANGED <<backend, listing>>
     \/ \E returned \in SUBSET Catalogue :
          /\ listing' = returned
          /\ IF EligibleBackends(returned) = {}
               THEN FallThrough /\ UNCHANGED backend
               ELSE /\ backend' = LeastBusy(EligibleBackends(returned))
                    /\ pc' = "remote_transpile"
                    /\ UNCHANGED response
  /\ UNCHANGED <<scheduler, input_state, environ, registry, name, arguments, query, shots, lmReply,
                 computation_request, circuit, results, initCaller, channel, log>>

\* the remote tier: transpile(circuit, backend, optimization_level=1)
RemoteTranspile ==
  /\ pc = "remote_transpile"
  /\ steps' = Append(steps, "remote:transpile")
  /\ \E raises \in BOOLEAN :
       IF raises THEN FallThrough ELSE pc' = "remote_run" /\ UNCHANGED response
  /\ UNCHANGED <<scheduler, input_state, environ, registry, name, arguments, locals, initCaller, channel, log>>

\* the remote tier: Sampler(backend).run([transpiled_circuit], shots=shots)
RemoteRun ==
  /\ pc = "remote_run"
  /\ steps' = Append(steps, "remote:run")
  /\ \E raises \in BOOLEAN :
       IF raises THEN FallThrough ELSE pc' = "remote_result" /\ UNCHANGED response
  /\ UNCHANGED <<scheduler, input_state, environ, registry, name, arguments, locals, initCaller, channel, log>>

\* the remote tier: job.result() and the returned dict
RemoteResult ==
  /\ pc = "remote_result"
  /\ steps' = Append(steps, "remote:result")
  /\ \/ FallThrough /\ UNCHANGED <<results, listing>>
     \/ \E counts \in Histograms(circuit, shots) :
          /\ results' = RemoteExecutionResult(backend, shots, counts)
          /\ listing' = {}
          /\ pc' = "format"
          /\ UNCHANGED response
  /\ UNCHANGED <<scheduler, input_state, environ, registry, name, arguments, query, shots, lmReply,
                 computation_request, circuit, backend, initCaller, channel, log>>

\* the local tier: simulator.run(circuit, shots=shots).result()
LocalRun ==
  /\ pc = "local_run"
  /\ steps' = Append(steps, "local:run")
  /\ listing' = {}
  /\ \/ Raise("simulator failure", "execute") /\ UNCHANGED results
     \/ \E counts \in LocalHistograms(circuit, shots) :
          /\ results' = LocalExecutionResult(shots, counts)
          /\ pc' = "format"
          /\ UNCHANGED response
  /\ UNCHANGED <<scheduler, input_state, environ, registry, name, arguments, query, shots, lmReply,
                 computation_request, circuit, backend, initCaller, channel, log>>

\* format_results, and the return of handle_quantum_compute
Format ==
  /\ pc = "format"
  /\ steps' = Append(steps, "format")
  /\ \/ Raise("drawing failure", "format")
     \/ \E lines \in SortedLines(results.counts) :
          ReturnContent(ReportContent(format_results(computation_request, results, lines)))
  /\ UNCHANGED <<scheduler, input_state, environ, registry, name, arguments, locals, initCaller, channel, log>>

IBMUnavailableText ==
  "IBM Quantum not available. Using local simulator only.\n\nTo enable IBM Quantum:\n"
    \o "1. Set IBM_QUANTUM_TOKEN in environment\n"
    \o "2. Get token from: https://quantum.ibm.com/account"

\* str() of a natural number, as the f-string formats len(backends)
RECURSIVE Decimal(_)
Decimal(n) ==
  IF n < 10 THEN CharAt(Digits, n + 1)
  ELSE Decimal(n \div 10) \o CharAt(Digits, (n % 10) + 1)

\* the four lines handle_list_backends writes for one backend
BackendEntry(b) ==
  [name |-> b.name, qubits |-> b.num_qubits,
   status |-> IF b.operational THEN "Up" ELSE "Down",
   simulator |-> IF b.simulator THEN "Yes" ELSE "No"]

\* a plausible slip: only the operational backends written, as the remote tier
\* filters them
BackendEntries_operational_only(backends) ==
  LET up == SelectSeq(backends, LAMBDA b : b.operational)
  IN [i \in 1..Len(up) |-> BackendEntry(up[i])]

\* `for backend in backends:` of handle_list_backends
BackendEntries(backends) == [i \in 1..Len(backends) |-> BackendEntry(backends[i])]

\* the listing handle_list_backends returns for list(ibm_service.backends())
BackendListing(backends) ==
  [kind |-> "text",
   text |-> "IBM Quantum Backends (" \o Decimal(Len(backends)) \o " found):",
   report |-> [NoReport EXCEPT !.lines = BackendEntries(backends)],
   at |-> ""]

\* handle_list_backends up to its call of initialize_services
HandleListBackends ==
  /\ pc = "list_backends"
  /\ pc' = "init_simulator"
  /\ initCaller' = "list_backends"
  /\ steps' = Append(steps, "initialize_services")
  /\ UNCHANGED <<scheduler, input_state, environ, registry, name, arguments, locals, channel, log, response>>

\* handle_list_backends after initialize_services
ListBackends ==
  /\ pc = "list"
  /\ steps' = Append(steps, "list")
  /\ IF has_ibm_service(ibm_service)
       THEN \/ ReturnContent(TextContent("Error listing backends: failure"))
            \/ \E returned \in SUBSET Catalogue : \E backends \in Orderings(returned) :
                 ReturnContent(BackendListing(backends))
       ELSE ReturnContent(TextContent(IBMUnavailableText))
  /\ UNCHANGED <<scheduler, input_state, environ, registry, name, arguments, locals, initCaller, channel, log>>

Next ==
  \/ SetEnviron
  \/ CallTool
  \/ HandleCallTool
  \/ HandleQuantumCompute
  \/ InitializeSimulator
  \/ InitializeOpenAI
  \/ InitializeIBM
  \/ InitReturnsTrue
  \/ Classify
  \/ Build
  \/ Execute
  \/ RemoteSelect
  \/ RemoteTranspile
  \/ RemoteRun
  \/ RemoteResult
  \/ LocalRun
  \/ Format
  \/ HandleListBackends
  \/ ListBackends
  \/ Return

Spec == Init /\ [][Next]_vars

(***************************************************************************)
(* The event loop: the server takes tool calls from its transport while a  *)
(* call may still be running, and runs each as a task of one thread.  A    *)
(* task gives way to another only where it awaits something that suspends. *)
(***************************************************************************)
\* a plausible slip: the two awaits of handle_quantum_compute suspending, as
\* they would with an asynchronous client
SuspensionPoints_at_awaits == {"classify", "execute"}

\* the places of the chain at which the running call can be suspended: none.
\* Each `await` of the handlers is of a coroutine of this module, and those
\* call the language model, the backends and the simulator synchronously
SuspensionPoints == {}

\* the queries of the calls the event loop is given
LoopQueries ==
  {"Create a Bell state to demonstrate quantum entanglement", "Apply QFT to |01> + |11>"}

LoopArguments ==
  {NoArguments} \cup {Arguments(FALSE, TRUE, q, TRUE, MaxShots) : q \in LoopQueries}

\* a tool call is received while the server does whatever it does
Arrive ==
  /\ waiting < MaxWaiting
  /\ waiting' = waiting + 1
  /\ UNCHANGED <<suspended, input_state, environ, registry, pc, name, arguments, locals,
                 initCaller, channel, log, response, steps>>

\* the event loop starts a call that waits: when no call is running, or when
\* the running one is parked at a suspension point
StartCall ==
  /\ waiting > 0
  /\ pc = "idle" \/ pc \in SuspensionPoints
  /\ waiting' = waiting - 1
  /\ suspended' = IF pc = "idle" THEN suspended ELSE <<CurrentFrame>> \o suspended
  /\ \E n \in ToolNames :
       /\ name' = n
       /\ arguments' \in IF n = "quantum_compute" THEN LoopArguments ELSE {NoArguments}
  /\ pc' = "call"
  /\ query' = ""
  /\ shots' = 0
  /\ initCaller' = ""
  /\ channel' = 0
  /\ log' = << >>
  /\ lmReply' = NoReply
  /\ computation_request' = NoRequest
  /\ circuit' = NoCircuit
  /\ backend' = NoBackend
  /\ listing' = {}
  /\ results' = NoResults
  /\ response' = NoResponse
  /\ steps' = << >>
  /\ UNCHANGED <<input_state, environ, registry>>

\* a step of the running call
HandlerStep ==
  \/ HandleCallTool
  \/ HandleQuantumCompute
  \/ InitializeSimulator
  \/ InitializeOpenAI
  \/ InitializeIBM
  \/ InitReturnsTrue
  \/ Classify
  \/ Build
  \/ Execute
  \/ RemoteSelect
  \/ RemoteTranspile
  \/ RemoteRun
  \/ RemoteResult
  \/ LocalRun
  \/ Format
  \/ HandleListBackends
  \/ ListBackends

NextLoop ==
  \/ Arrive
  \/ StartCall
  \/ HandlerStep
  \/ Return

SpecLoop == Init /\ [][NextLoop]_vars

\* the places of the handlers
Places ==
  {"call", "quantum_compute", "init_simulator", "init_openai", "init_ibm", "init_return",
   "classify", "build", "execute", "remote_select", "remote_transpile", "remote_run",
   "remote_result", "local_run", "format", "list_backends", "list", "done"}

\* the control of the running call moves on: to another place of the
\* handlers, or to the next channel of the loop of initialize_services
Advance ==
  /\ pc \in Places \ {"done"}
  /\ pc' \in Places
  /\ channel' \in 0..Len(Channels)
  /\ <<pc', channel'>> # <<pc, channel>>

\* every external call returns or raises and the code between two of them
\* ends, so the running call does not stay where it is for ever
SpecFair == Init /\ [][NextLoop]_vars /\ WF_<<pc, channel>>(Advance)

(***************************************************************************)
(* The keyword classifier on its own: process_query_locally applied to     *)
(* query texts concatenated from fragments.                                *)
(***************************************************************************)
Fragments ==
  {"Bell", "entangl", "EPR", "random", "RNG", "Number", "0", "3", "7", "12", " ", "qft"}

RECURSIVE TextsOf(_)
TextsOf(n) ==
  IF n <= 0 THEN {""}
  ELSE {""} \cup {f \o t : f \in Fragments, t \in TextsOf(n - 1)}

InitLocal ==
  /\ environ = [OPENAI_API_KEY |-> FALSE, IBM_QUANTUM_TOKEN |-> FALSE]
  /\ openai_client = FALSE
  /\ ibm_service = "none"
  /\ simulator = FALSE
  /\ pc = "local_call"
  /\ name = ""
  /\ arguments = NoArguments
  /\ query \in TextsOf(MaxParts)
  /\ shots = 0
  /\ initCaller = ""
  /\ channel = 0
  /\ log = << >>
  /\ lmReply = NoReply
  /\ computation_request = NoRequest
  /\ circuit = NoCircuit
  /\ backend = NoBackend
  /\ results = NoResults
  /\ response = NoResponse
  /\ steps = << >>
  /\ listing = {}
  /\ input_state = ""
  /\ waiting = 0
  /\ suspended = << >>

\* a call of process_query_locally
ProcessQueryLocally ==
  /\ pc = "local_call"
  /\ computation_request' = process_query_locally(query)
  /\ pc' = "local_returned"
  /\ UNCHANGED <<scheduler, input_state, environ, registry, name, arguments, query, shots, initCaller, channel, log,
                 lmReply, circuit, backend, listing, results, response, steps>>

NextLocal == ProcessQueryLocally

SpecLocal == InitLocal /\ [][NextLocal]_vars

(***************************************************************************)
(* Vocabulary of the properties.                                           *)
(***************************************************************************)
Range(seq) == {seq[i] : i \in 1..Len(seq)}

Count(seq, x) == Cardinality({i \in 1..Len(seq) : seq[i] = x})

\* x occurs in seq, and before every occurrence of y
Before(seq, x, y) ==
  \A j \in 1..Len(seq) : seq[j] = y => \E i \in 1..(j - 1) : seq[i] = x

RemoteSteps == {"remote:backends", "remote:transpile", "remote:run", "remote:result"}

ChainSteps == {"classify", "build", "execute", "local:run", "format"} \cup RemoteSteps

HasPrefix(text, prefix) == SubSeq(text, 1, Len(prefix)) = prefix

IsReport(content) == content.kind = "text" /\ content.report # NoReport

IsErrorText(content) ==
  content.kind = "text" /\ content.report = NoReport /\ HasPrefix(content.text, "Error: ")

\* the shot count the caller asked for
RequestedShots == IF arguments.has_shots THEN arguments.shots ELSE DefaultShots

\* execute_quantum has been entered and has taken its `if ibm_service:` branch
InExecute == "execute" \in Range(steps)

\* the counts in `results` come from a completed job of the remote tier
CountsFromRemoteJob ==
  /\ results # NoResults
  /\ "remote:result" \in Range(steps)
  /\ "local:run" \notin Range(steps)

(***************************************************************************)
(* Properties.                                                             *)
(***************************************************************************)

\* C1: when execute_quantum runs with a remote-backend handle, the remote tier
\* is attempted exactly once and before the local tier; when a step of it
\* raises or no backend is eligible, it is given up without a retry and
\* without an error reaching the caller, and the local simulator is then run
\* and is what supplies the result.
C1_RemoteOnceThenLocal ==
  (InExecute /\ ibm_service # "none") =>
    /\ pc = "remote_select" => Range(steps) \cap (RemoteSteps \cup {"local:run"}) = {}
    /\ pc # "remote_select" => Count(steps, "remote:backends") = 1
    /\ \A st \in RemoteSteps \cup {"local:run"} : Count(steps, st) <= 1
    /\ Before(steps, "remote:backends", "local:run")
    /\ pc = "local_run" => response = NoResponse /\ results = NoResults
    /\ (pc \in {"format", "done"} /\ ~CountsFromRemoteJob) => "local:run" \in Range(steps)
    /\ ("local:run" \in Range(steps) /\ results # NoResults) =>
         results.backend = "aer_simulator"
    /\ response.at = "execute" => steps[Len(steps)] = "local:run"

C1_Witness ==
  /\ pc = "done"
  /\ ibm_service # "none"
  /\ "remote:result" \in Range(steps)
  /\ "local:run" \in Range(steps)
  /\ IsReport(response)
  /\ response.report.backend = "aer_simulator"

\* C2: without a remote-backend handle execute_quantum makes no call of the
\* remote service, runs the circuit it was given on the local simulator, and
\* any result it returns names the local simulator ("aer_simulator", Local
\* Simulator).
C2_NoHandleLocalOnly ==
  (InExecute /\ ibm_service = "none") =>
    /\ Range(steps) \cap RemoteSteps = {}
    /\ backend = NoBackend
    /\ pc \in {"local_run", "format", "done"}
    /\ pc # "local_run" => "local:run" \in Range(steps)
    /\ results # NoResults =>
         /\ results.backend = "aer_simulator"
         /\ results.backend_type = LocalType
         /\ DOMAIN results.counts \subseteq
              {LocalKey(circuit, b) : b \in Bitstrings(circuit.num_qubits)}
    /\ IsReport(response) =>
         /\ response.report.backend = "aer_simulator"
         /\ response.report.backend_type = LocalType

C2_Witness ==
  /\ pc = "done"
  /\ ibm_service = "none"
  /\ InExecute
  /\ IsReport(response)
  /\ response.report.backend = "aer_simulator"

\* C3: a result of execute_quantum is tagged as hardware exactly when its
\* counts come from a completed job of the remote tier; every other result is
\* tagged as the local simulator and carries the local simulator's name.
C3_HardwareIffRemoteJob ==
  results # NoResults =>
    /\ (results.backend_type = HardwareType) <=> CountsFromRemoteJob
    /\ CountsFromRemoteJob => results.backend = backend.name
    /\ ~CountsFromRemoteJob =>
         results.backend_type = LocalType /\ results.backend = "aer_simulator"

C3_Witness ==
  /\ pc = "done"
  /\ IsReport(response)
  /\ CountsFromRemoteJob
  /\ response.report.backend_type = HardwareType
  /\ response.report.backend = "ibm_kyoto"

\* C4: the counts of every result execute_quantum returns sum to the shot
\* count the caller asked for (1024 when the caller gave none), on either tier.
C4_CountsSumToShots ==
  results # NoResults =>
    /\ Total(results.counts) = RequestedShots
    /\ results.shots = RequestedShots

C4_Witness ==
  /\ pc = "format"
  /\ CountsFromRemoteJob
  /\ arguments.has_shots
  /\ arguments.shots = MaxShots
  /\ Cardinality(DOMAIN results.counts) = 2

\* C5: a tool call never lets an exception out of handle_call_tool: whatever
\* the tool name and the arguments, and whichever step fails, the call ends
\* with a list of text content.
C5_NoExceptionEscapes ==
  /\ response.kind # "raised"
  /\ pc = "done" => response.kind = "text"

C5_Witness ==
  /\ pc = "done"
  /\ response.at = "format"
  /\ IsErrorText(response)

\* C6: handle_quantum_compute with a missing or an empty query returns exactly
\* 'Missing required parameter: query', and before anything else: the registry
\* is left as it was and no initialisation, classification, build, execution
\* or formatting step is taken.
C6_MissingQueryRejectedFirst ==
  [][(pc = "quantum_compute" /\ (~arguments.has_query \/ arguments.query = "")) =>
       /\ pc' = "done"
       /\ response'.kind = "text"
       /\ response'.text = "Missing required parameter: query"
       /\ response'.report = NoReport
       /\ UNCHANGED registry
       /\ steps' = steps
       /\ Range(steps) \cap (ChainSteps \cup {"initialize_services"}) = {}]_vars

C6_Witness ==
  /\ pc = "done"
  /\ name = "quantum_compute"
  /\ arguments.has_query
  /\ arguments.query = ""
  /\ response.text = "Missing required parameter: query"
  /\ steps = <<"call_tool">>

\* C7 as stated: a quantum_compute call with a non-empty query returns the
\* formatted report or an error string that begins with 'Error: ', whatever
\* failed, the initialisation of the local simulator included.
C7_ReportOrErrorPrefix ==
  (pc = "done" /\ name = "quantum_compute" /\ arguments.has_query /\ arguments.query # "") =>
    IsReport(response) \/ IsErrorText(response)

\* C7 as amended: a quantum_compute call with a non-empty query returns the
\* formatted report, or an error string that begins with 'Error: ', or, when
\* initialize_services could not construct the local simulator, the fixed text
\* 'Failed to initialize quantum services - check that qiskit-aer is
\* installed', which carries no 'Error: ' prefix.
C7_ReportErrorOrInitFailure ==
  (pc = "done" /\ name = "quantum_compute" /\ arguments.has_query /\ arguments.query # "") =>
    IF "init:simulator_failed" \in Range(steps)
      THEN /\ response.kind = "text"
           /\ response.report = NoReport
           /\ response.text =
                "Failed to initialize quantum services - check that qiskit-aer is installed"
      ELSE IsReport(response) \/ IsErrorText(response)

C7_Witness ==
  /\ pc = "done"
  /\ name = "quantum_compute"
  /\ arguments.query # ""
  /\ "init:simulator_failed" \in Range(steps)
  /\ ~HasPrefix(response.text, "Error: ")

\* C8: when initialize_services cannot construct the local simulator, the
\* quantum_compute call returns an error text to the caller and performs no
\* classification, circuit build, execution (remote or local) or formatting.
C8_InitFailureStopsChain ==
  (name = "quantum_compute" /\ "init:simulator_failed" \in Range(steps)) =>
    /\ pc = "done"
    /\ response.kind = "text"
    /\ ~IsReport(response)
    /\ response.text =
         "Failed to initialize quantum services - check that qiskit-aer is installed"
    /\ Range(steps) \cap ChainSteps = {}
    /\ lmReply = NoReply
    /\ computation_request = NoRequest
    /\ circuit = NoCircuit
    /\ results = NoResults

C8_Witness ==
  /\ pc = "done"
  /\ name = "quantum_compute"
  /\ steps[Len(steps)] = "init:simulator_failed"
  /\ Count(steps, "initialize_services") = 2
  /\ response.text = InitFailedText

\* a reply of the language model that the try block cannot turn into a
\* request: the call failed, the content is no JSON, a required field is
\* missing, or the operation is none of the ten declared kinds
BadReply(r) ==
  \/ r.raises
  \/ ~r.is_json
  \/ \E f \in {"operation_type", "num_qubits", "parameters"} : f \notin r.fields
  \/ r.operation_type \notin
       {"bell_state", "qft", "grover", "teleportation", "vqe", "qaoa", "custom", "random",
        "deutsch_jozsa", "bernstein_vazirani"}

\* C9: process_query_with_openai never raises, and with a language-model
\* handle and a failed call, a reply that is no JSON, a reply lacking a
\* required field or a reply naming an undeclared operation, it returns what
\* process_query_locally returns for the query.
C9_ClassifierFallsBack ==
  /\ response.at # "classify"
  /\ "classify" \in Range(steps) => computation_request # NoRequest
  /\ (pc = "build" /\ openai_client /\ BadReply(lmReply)) =>
       computation_request = process_query_locally(query)

C9_Witness ==
  /\ pc = "build"
  /\ openai_client
  /\ lmReply.is_json
  /\ lmReply.operation_type = "shor"
  /\ computation_request.operation_type = "random"
  /\ computation_request.num_qubits = 3

\* the reference classifier of C10, in the claim's words
RefMentions(q, words) ==
  \E w \in words : \E i \in 1..Len(q) :
    i + Len(w) - 1 <= Len(q) /\ Lower(SubSeq(q, i, i + Len(w) - 1)) = w

RefDigitPositions(q) == {i \in 1..Len(q) : IsDigit(CharAt(q, i))}

RECURSIVE RefPow10(_)
RefPow10(n) == IF n <= 0 THEN 1 ELSE 10 * RefPow10(n - 1)

RECURSIVE RefSum(_, _, _)
RefSum(q, from, to) ==
  IF from > to THEN 0
  ELSE DigitValue(CharAt(q, from)) * RefPow10(to - from) + RefSum(q, from + 1, to)

\* the value of the first integer literal of q, which has one
RefFirstInteger(q) ==
  LET first == CHOOSE i \in RefDigitPositions(q) : \A j \in RefDigitPositions(q) : i <= j
      last == CHOOSE j \in first..Len(q) :
                /\ \A k \in first..j : k \in RefDigitPositions(q)
                /\ (j + 1) \notin RefDigitPositions(q)
  IN RefSum(q, first, last)

RefClassify(q) ==
  IF RefMentions(q, {"bell", "entangl", "epr"})
    THEN [query |-> q, operation_type |-> "bell_state", parameters |-> {}, num_qubits |-> 2]
  ELSE IF RefMentions(q, {"random", "rng", "number"})
    THEN [query |-> q, operation_type |-> "random", parameters |-> {},
          num_qubits |-> IF RefDigitPositions(q) = {} THEN 3
                         ELSE IF RefFirstInteger(q) < 5 THEN RefFirstInteger(q) ELSE 5]
  ELSE [query |-> q, operation_type |-> "bell_state", parameters |-> {}, num_qubits |-> 2]

\* C10: process_query_locally is the reference classifier: a query mentioning
\* 'bell', 'entangl' or 'epr' (in any case) is BellState on 2 qubits even when
\* it also mentions the random family; otherwise one mentioning 'random', 'rng'
\* or 'number' is RandomNumber on min(first integer literal, 5) qubits, 3
\* without a literal; every other query is BellState on 2 qubits; no other
\* kind is returned.
C10_LocalClassifierIsReference ==
  pc = "local_returned" =>
    /\ computation_request = RefClassify(query)
    /\ computation_request.operation_type \in {"bell_state", "random"}

C10_Witness ==
  /\ pc = "local_returned"
  /\ query = "Number12"
  /\ computation_request.operation_type = "random"
  /\ computation_request.num_qubits = 5

\* C11: every request the classifier produces, through the language-model path
\* or through the keyword fallback and whatever the query text, has a
\* num_qubits of at least 1; a random-number query whose first integer literal
\* is 0 does not yield num_qubits 0.
C11_QubitCountAtLeastOne ==
  ("classify" \in Range(steps) /\ computation_request # NoRequest) =>
    computation_request.num_qubits >= 1

\* the instructions of a circuit that are gates (no barrier, no measurement)
IsGate(g) == g.name \notin {"barrier", "measure"}

GatesOf(c) == SelectSeq(c.data, IsGate)

IsTwoQubitGate(g) == IsGate(g) /\ Len(g.qubits) = 2

\* the circuit ends with one measurement per qubit, qubit 0 first
EndsWithMeasureAll(c) ==
  /\ Len(c.data) >= c.num_qubits
  /\ \A i \in 1..c.num_qubits :
       c.data[Len(c.data) - c.num_qubits + i] = [name |-> "measure", qubits |-> <<i - 1>>]

\* create_quantum_circuit has returned or raised for a request of this kind
BuildDoneFor(op) ==
  "build" \in Range(steps) /\ computation_request.operation_type = op

\* C12: create_quantum_circuit applied to a bell_state request returns,
\* whatever num_qubits the request asks for, a circuit with exactly 2 qubits
\* and exactly 2 classical bits whose gates are exactly one Hadamard on qubit
\* 0 and one controlled-NOT from 0 to 1, followed by the measurement of all
\* qubits.
C12_BellCircuitShape ==
  BuildDoneFor("bell_state") =>
    /\ circuit.num_qubits = 2
    /\ circuit.num_clbits = 2
    /\ GatesOf(circuit) =
         <<[name |-> "h", qubits |-> <<0>>], [name |-> "cx", qubits |-> <<0, 1>>]>>
    /\ EndsWithMeasureAll(circuit)

\* the Hadamard gates a circuit applies to qubit q
HadamardsOn(c, q) ==
  Cardinality({i \in 1..Len(c.data) : c.data[i] = [name |-> "h", qubits |-> <<q>>]})

HadamardCount(c) == Cardinality({i \in 1..Len(c.data) : c.data[i].name = "h"})

TwoQubitGateCount(c) == Cardinality({i \in 1..Len(c.data) : IsTwoQubitGate(c.data[i])})

\* C13: create_quantum_circuit applied to a random request with num_qubits = N
\* returns a circuit on N qubits containing exactly N Hadamard gates, one on
\* each qubit 0..N-1, no two-qubit gate, and a final measurement of all qubits.
C13_RandomCircuitShape ==
  BuildDoneFor("random") =>
    /\ circuit.num_qubits = computation_request.num_qubits
    /\ HadamardCount(circuit) = computation_request.num_qubits
    /\ \A q \in 0..(computation_request.num_qubits - 1) : HadamardsOn(circuit, q) = 1
    /\ TwoQubitGateCount(circuit) = 0
    /\ EndsWithMeasureAll(circuit)

\* the operation kinds test_all_operation_types builds a circuit for
TestedKinds == {"bell_state", "qft", "grover", "random", "deutsch_jozsa"}

\* a qubit count that is valid for a kind
ValidQubitCount(op, n) ==
  IF op = "bell_state" THEN n = 2
  ELSE IF op = "random" THEN n >= 1
  ELSE n >= 2

\* C14: for each of the kinds bell_state, qft, grover, random and deutsch_jozsa
\* and a num_qubits n valid for the kind, create_quantum_circuit returns a
\* circuit (it does not raise) whose number of qubits is n and that holds at
\* least one instruction.
C14_TestedKindsBuild ==
  \A op \in TestedKinds :
    (BuildDoneFor(op) /\ ValidQubitCount(op, computation_request.num_qubits)) =>
      /\ response.at # "build"
      /\ circuit.num_qubits = computation_request.num_qubits
      /\ Len(circuit.data) > 0

\* the second of the two calls of initialize_services that one quantum_compute
\* call makes (lines 263 and 266) is running; the environment is the one the
\* first call read
InSecondCall ==
  initCaller = "quantum_compute_2" /\ pc \in {"init_simulator", "init_openai", "init_ibm"}

\* the lines initialize_services logs after it constructed a handle or called
\* an external service
ConstructionLines ==
  {"Local simulator initialized", "OpenAI initialized successfully",
   "OpenAI initialization failed"}
    \cup {InitializedLine(Channels[i]) : i \in DOMAIN Channels}
    \cup {FailedLine(Channels[i]) : i \in DOMAIN Channels}

\* C15: a second call of initialize_services with the same credentials in the
\* environment leaves the registry holding the handles the first call left,
\* constructs no new handle and makes no external call.
C15_SecondCallIsNoOp ==
  [][InSecondCall =>
       /\ UNCHANGED registry
       /\ Range(log') \cap ConstructionLines = {}]_vars

\* C16: when initialize_services has constructed the simulator, a failure
\* while setting up the language-model client (its construction or its probe
\* request) or the remote-backend service (account save, construction or probe
\* listing, on every channel) is not fatal: the call returns True, and the
\* handle whose setup failed is absent from the registry.
C16_FailedSetupLeavesNoHandle ==
  pc = "init_return" =>
    /\ simulator
    /\ response = NoResponse
    /\ "OpenAI initialization failed" \in Range(log) => ~openai_client
    /\ (\A i \in DOMAIN Channels : FailedLine(Channels[i]) \in Range(log))
         => ibm_service = "none"

\* the language model was asked to classify the query of the running request
LanguageModelUsed == lmReply # NoReply

\* the remote tier was attempted in the running request
RemoteTierAttempted == Range(steps) \cap RemoteSteps # {}

\* C17: across the requests of one process, the language-model path is used
\* in a request only if OPENAI_API_KEY is in the environment at that request,
\* and the remote tier is attempted only if IBM_QUANTUM_TOKEN is; a handle
\* obtained in an earlier request does not keep a tier reachable after its
\* credential was removed.
C17_CredentialGatesTier ==
  /\ LanguageModelUsed => environ.OPENAI_API_KEY
  /\ RemoteTierAttempted => environ.IBM_QUANTUM_TOKEN

\* a response that is the listing of handle_list_backends
IsBackendListing(content) ==
  content.kind = "text" /\ HasPrefix(content.text, "IBM Quantum Backends (")

\* the listing has one entry per backend: as many entries as the header
\* counts, each the entry of a backend of the service, no backend twice
OneEntryPerBackend(content) ==
  LET entries == content.report.lines
  IN /\ content.text = "IBM Quantum Backends (" \o Decimal(Len(entries)) \o " found):"
     /\ \A i \in 1..Len(entries) :
          \E b \in Catalogue :
            /\ entries[i].name = b.name
            /\ entries[i].qubits = b.num_qubits
            /\ entries[i].status = (IF b.operational THEN "Up" ELSE "Down")
     /\ \A i, j \in 1..Len(entries) : entries[i].name = entries[j].name => i = j

ListBackendsDone == pc = "done" /\ name = "list_quantum_backends"

\* C18 as stated: handle_list_backends returns the listing, one entry per
\* backend, whenever a remote-backend handle exists, and otherwise the fixed
\* message naming IBM_QUANTUM_TOKEN; nothing but the existence of the handle
\* decides which, neither the local simulator nor a listing error.
C18_ListingByHandleOnly ==
  ListBackendsDone =>
    IF ibm_service # "none"
      THEN IsBackendListing(response) /\ OneEntryPerBackend(response)
      ELSE /\ response.kind = "text"
           /\ HasPrefix(response.text, "IBM Quantum not available.")
           /\ Contains(response.text, "IBM_QUANTUM_TOKEN")

\* C18 as amended: handle_list_backends returns 'Failed to initialize
\* services' when initialize_services could not construct the local
\* simulator; otherwise, when a remote-backend handle exists, the listing with
\* one entry per backend (name, qubit count, operational status) or, when the
\* listing raises, a text beginning 'Error listing backends: '; otherwise the
\* fixed message naming IBM_QUANTUM_TOKEN.
C18_ListingByHandleAndErrors ==
  ListBackendsDone =>
    IF "init:simulator_failed" \in Range(steps)
      THEN response.kind = "text" /\ response.text = "Failed to initialize services"
    ELSE IF ibm_service # "none"
      THEN \/ IsBackendListing(response) /\ OneEntryPerBackend(response)
           \/ response.kind = "text" /\ HasPrefix(response.text, "Error listing backends: ")
    ELSE /\ response.kind = "text"
         /\ HasPrefix(response.text, "IBM Quantum not available.")
         /\ Contains(response.text, "IBM_QUANTUM_TOKEN")

C18_Witness ==
  /\ ListBackendsDone
  /\ ibm_service # "none"
  /\ IsBackendListing(response)
  /\ Len(response.report.lines) = 3
  /\ \E i \in 1..3 : response.report.lines[i].status = "Down"

\* s is an initial part of t
IsPrefix(s, t) == Len(s) <= Len(t) /\ SubSeq(t, 1, Len(s)) = s

\* the steps of the chain taken so far, in the order taken
ChainTaken == SelectSeq(steps, LAMBDA st : st \in ChainSteps)

\* the running call is quantum_compute with this query, in a process whose
\* environment holds neither credential, so that the registry holds neither
\* optional handle
CredentialFreeCall(q) ==
  /\ name = "quantum_compute"
  /\ pc \notin {"idle", "call"}
  /\ arguments.has_query
  /\ arguments.query = q
  /\ ~environ.OPENAI_API_KEY
  /\ ~environ.IBM_QUANTUM_TOKEN
  /\ ~openai_client
  /\ ibm_service = "none"

\* the local simulator did not work: it could not be constructed, or its run
\* raised
SimulatorFailed ==
  "init:simulator_failed" \in Range(steps) \/ response.at = "execute"

\* the counts written on the lines of a report
RECURSIVE LineTotal(_)
LineTotal(lines) ==
  IF Len(lines) = 0 THEN 0 ELSE lines[1][2] + LineTotal(SubSeq(lines, 2, Len(lines)))

BellQuery == "Create a Bell state to demonstrate quantum entanglement"

\* C19: with neither credential present and a working local simulator, a
\* quantum_compute call with the Bell query and 1024 shots runs classify (the
\* fallback, giving bell_state on 2 qubits), build (H, CX, measure), the local
\* execution and format, in that order, and returns a report, not an error,
\* that carries the query text, 'bell_state', 'aer_simulator' and count lines
\* for the observed bitstrings whose counts sum to 1024.
C19_BellEndToEnd ==
  (CredentialFreeCall(BellQuery) /\ RequestedShots = 1024) =>
    /\ IsPrefix(ChainTaken, <<"classify", "build", "execute", "local:run", "format">>)
    /\ lmReply = NoReply
    /\ "classify" \in Range(steps) =>
         computation_request =
           [query |-> BellQuery, operation_type |-> "bell_state", parameters |-> {},
            num_qubits |-> 2]
    /\ "build" \in Range(steps) =>
         /\ GatesOf(circuit) =
              <<[name |-> "h", qubits |-> <<0>>], [name |-> "cx", qubits |-> <<0, 1>>]>>
         /\ EndsWithMeasureAll(circuit)
    /\ results # NoResults =>
         results.backend = "aer_simulator" /\ Total(results.counts) = 1024
    /\ (pc = "done" /\ ~SimulatorFailed /\ response.at # "format") =>
         /\ ChainTaken = <<"classify", "build", "execute", "local:run", "format">>
         /\ IsReport(response)
         /\ ~IsErrorText(response)
         /\ response.report.query = BellQuery
         /\ response.report.operation = "bell_state"
         /\ response.report.backend = "aer_simulator"
         /\ response.report.shots = 1024
         /\ {response.report.lines[i][1] : i \in 1..Len(response.report.lines)}
              = DOMAIN results.counts
         /\ LineTotal(response.report.lines) = 1024

C19_Witness ==
  /\ CredentialFreeCall(BellQuery)
  /\ RequestedShots = 1024
  /\ pc = "done"
  /\ IsReport(response)
  /\ Len(response.report.lines) = 2
  /\ response.report.lines[1] = <<"00 00", 512>>
  /\ response.report.lines[2] = <<"11 00", 512>>

RandomQuery == "Generate quantum random numbers using 3 qubits"

\* C20: with neither credential present and a working local simulator, a
\* quantum_compute call with the random-number query is classified as random
\* on 3 qubits, builds a circuit of 3 independent Hadamards (one on each
\* qubit, no gate joining two qubits), executes locally, and returns a report,
\* not an error, that includes an entropy line.
C20_RandomEndToEnd ==
  CredentialFreeCall(RandomQuery) =>
    /\ IsPrefix(ChainTaken, <<"classify", "build", "execute", "local:run", "format">>)
    /\ "classify" \in Range(steps) =>
         /\ computation_request.operation_type = "random"
         /\ computation_request.num_qubits = 3
    /\ "build" \in Range(steps) =>
         /\ circuit.num_qubits = 3
         /\ HadamardCount(circuit) = 3
         /\ \A q \in 0..2 : HadamardsOn(circuit, q) = 1
         /\ TwoQubitGateCount(circuit) = 0
    /\ results # NoResults => results.backend = "aer_simulator"
    /\ (pc = "done" /\ ~SimulatorFailed /\ response.at # "format") =>
         /\ IsReport(response)
         /\ ~IsErrorText(response)
         /\ "Entropy" \in response.report.notes

(***************************************************************************)
(* The advertised tools and the dispatch.                                  *)
(***************************************************************************)
\* handle_list_tools: the names of the tools the server advertises
handle_list_tools == {"quantum_compute", "list_quantum_backends", "quantum_circuit_info"}

UnknownToolAnswer ==
  /\ pc = "done"
  /\ response.kind = "text"
  /\ HasPrefix(response.text, "Error: Unknown tool: ")

\* C27: a call to a tool that handle_list_tools advertises (quantum_compute,
\* list_quantum_backends, quantum_circuit_info) reaches its handler: it is never
\* answered with the "Unknown tool" error.
C27_AdvertisedToolsDispatched ==
  (pc = "done" /\ name \in handle_list_tools) => ~UnknownToolAnswer

(***************************************************************************)
(* The kinds the builder has no branch for.                                *)
(***************************************************************************)
OtherKinds == QuantumOperationType \ {"bell_state", "random", "qft"}

ExecutionSteps == {"execute", "local:run"} \cup RemoteSteps

QFTReportDone ==
  /\ pc = "done"
  /\ IsReport(response)
  /\ computation_request.operation_type = "qft"

\* a tag outside the four recognised ones
UnrecognisedTag == "custom_state"

\* C24: in the Fourier-transform report each of the four recognised input-state
\* tags selects a description and an expected-distribution narrative of its
\* own, shared with no other tag and not the text of an unrecognised tag, and
\* the selected texts are the same whatever counts were measured.
C24_TagSelectsOwnTexts ==
  QFTReportDone =>
    LET tag == get_input_state(computation_request)
    IN tag \in InputStates =>
         /\ \A other \in (InputStates \cup {UnrecognisedTag}) \ {tag} :
              /\ response.report.input_state # get_input_state_description(other)
              /\ response.report.analysis
                   # analyze_qft_frequencies(other, results.counts)
         /\ \A h \in Histograms(circuit, shots) :
              response.report.analysis = analyze_qft_frequencies(tag, h)

\* the tag the state-preparation stage of the built circuit was chosen by
BuilderTag == extract_input_state_from_query(computation_request.query)

\* C29: for every Fourier-transform request the tag the formatter reads from
\* request.parameters['input_state'] (default superposition_0_2) is the tag the
\* builder obtained by scanning the query, so the report describes the input
\* state the circuit prepared.
C29_FormatterTagIsBuilderTag ==
  QFTReportDone =>
    /\ get_input_state(computation_request) = BuilderTag
    /\ response.report.input_state = get_input_state_description(BuilderTag)

\* format_results has returned its text for the running request
FormatDone ==
  /\ pc = "done"
  /\ "format" \in Range(steps)
  /\ IsReport(response)

\* the operation as the report names it: the value of the kind, or in the
\* Fourier-transform report its fixed title
OperationName(request) ==
  IF request.operation_type = "qft" THEN QFTOperationTitle ELSE request.operation_type

ChannelsTried ==
  SelectSeq(log, LAMBDA l : \E i \in DOMAIN Channels : l = TryingLine(Channels[i]))

\* C30: with a remote credential present initialize_services tries the
\* channels in the order ibm_quantum_platform, ibm_cloud, ibm_quantum; the
\* first channel whose account save, construction and probe listing all
\* succeed ends the loop, no later channel is tried, and the handle held
\* afterwards is the service of that channel.
C30_ChannelsInOrderFirstSuccessWins ==
  pc \in {"init_ibm", "init_return"} =>
    /\ ChannelsTried # << >> => environ.IBM_QUANTUM_TOKEN
    /\ ChannelsTried =
         [i \in 1..Len(ChannelsTried) |-> TryingLine(Channels[i])]
    /\ Len(ChannelsTried) <= Len(Channels)
    /\ \A i \in DOMAIN Channels :
         InitializedLine(Channels[i]) \in Range(log) =>
           /\ pc = "init_return"
           /\ Len(ChannelsTried) = i
           /\ log[Len(log)] = InitializedLine(Channels[i])
           /\ \A j \in 1..(i - 1) : FailedLine(Channels[j]) \in Range(log)
           /\ ibm_service = Channels[i]

C30_Witness ==
  /\ pc = "init_return"
  /\ FailedLine("ibm_quantum_platform") \in Range(log)
  /\ InitializedLine("ibm_cloud") \in Range(log)
  /\ ibm_service = "ibm_cloud"

(***************************************************************************)
(* The choice of the remote backend.                                       *)
(***************************************************************************)
\* the remote tier has picked its backend and is working with it
BackendSelected == pc \in {"remote_transpile", "remote_run", "remote_result"}

\* C22: the backend the remote tier selects is operational and no simulator,
\* and no other operational non-simulator backend of the listing has fewer
\* pending jobs; a backend that is down or a simulator is never selected,
\* even with the shortest queue.
C22_SelectedIsLeastBusyEligible ==
  BackendSelected =>
    /\ backend \in listing
    /\ backend.operational
    /\ ~backend.simulator
    /\ \A b \in listing :
         (b.operational /\ ~b.simulator) => backend.pending_jobs <= b.pending_jobs

\* the listing holds a simulator and a backend that is down, both with a
\* shorter queue than the selected one, and a busier eligible backend
C22_Witness ==
  /\ BackendSelected
  /\ backend.name = "ibm_kyoto"
  /\ \E b \in listing : b.simulator /\ b.pending_jobs < backend.pending_jobs
  /\ \E b \in listing : ~b.operational /\ b.pending_jobs < backend.pending_jobs
  /\ \E b \in listing : b.operational /\ ~b.simulator
                          /\ b.pending_jobs > backend.pending_jobs

(***************************************************************************)
(* The scan for the input state on its own: extract_input_state_from_query *)
(* applied to query texts concatenated from fragments.                     *)
(***************************************************************************)
StateFragments ==
  {"|00> + |10>", "|0> + |2>", "|01> + |11>", "|0> + |1>",
   "|00⟩ + |10⟩", "|0⟩ + |2⟩", "|01⟩ + |11⟩", "|0⟩ + |1⟩",
   "Equal Superposition", "qft of "}

RECURSIVE StateTextsOf(_)
StateTextsOf(n) ==
  IF n <= 0 THEN {""}
  ELSE {""} \cup {f \o t : f \in StateFragments, t \in StateTextsOf(n - 1)}

InitExtract ==
  /\ environ = [OPENAI_API_KEY |-> FALSE, IBM_QUANTUM_TOKEN |-> FALSE]
  /\ openai_client = FALSE
  /\ ibm_service = "none"
  /\ simulator = FALSE
  /\ pc = "extract_call"
  /\ name = ""
  /\ arguments = NoArguments
  /\ query \in StateTextsOf(MaxParts)
  /\ shots = 0
  /\ initCaller = ""
  /\ channel = 0
  /\ log = << >>
  /\ lmReply = NoReply
  /\ computation_request = NoRequest
  /\ circuit = NoCircuit
  /\ backend = NoBackend
  /\ results = NoResults
  /\ response = NoResponse
  /\ steps = << >>
  /\ listing = {}
  /\ input_state = ""
  /\ waiting = 0
  /\ suspended = << >>

\* a call of extract_input_state_from_query
ExtractInputState ==
  /\ pc = "extract_call"
  /\ input_state' = extract_input_state_from_query(query)
  /\ pc' = "extract_returned"
  /\ UNCHANGED <<scheduler, environ, registry, name, arguments, locals, initCaller, channel,
                 log, response, steps>>

NextExtract == ExtractInputState

SpecExtract == InitExtract /\ [][NextExtract]_vars

\* the two-state patterns in the order the claim gives them, each with its tag
StatePatterns ==
  <<[first |-> "00", second |-> "10", tag |-> "superposition_0_2"],
    [first |-> "0", second |-> "2", tag |-> "superposition_0_2"],
    [first |-> "01", second |-> "11", tag |-> "superposition_1_3"],
    [first |-> "0", second |-> "1", tag |-> "superposition_0_1"]>>

\* a pattern written with one spelling of the closing bracket of a ket
Spelled(p, ket) == "|" \o p.first \o ket \o " + |" \o p.second \o ket

Matches(q, p, kets) == \E ket \in kets : Contains(q, Spelled(p, ket))

\* the tag of the first pattern of the list found in q, then the words
\* "equal superposition" in any case, then the default
FirstMatch(q, kets) ==
  IF \E i \in DOMAIN StatePatterns : Matches(q, StatePatterns[i], kets)
    THEN StatePatterns[CHOOSE i \in DOMAIN StatePatterns :
                         /\ Matches(q, StatePatterns[i], kets)
                         /\ \A j \in 1..(i - 1) : ~Matches(q, StatePatterns[j], kets)].tag
  ELSE IF Contains(Lower(q), "equal superposition") THEN "equal_superposition"
  ELSE "superposition_0_2"

ExtractReturned == pc = "extract_returned"

\* C25 as stated: extract_input_state_from_query returns for every query
\* exactly one of the four tags, by first match in the order '|00> + |10>' or
\* '|0> + |2>' (superposition_0_2), '|01> + |11>' (superposition_1_3),
\* '|0> + |1>' (superposition_0_1), 'equal superposition' in any case
\* (equal_superposition), and superposition_0_2 when none matches.
C25_FirstMatchAsciiKets ==
  ExtractReturned =>
    /\ input_state \in InputStates
    /\ input_state = FirstMatch(query, {">"})

\* C25 amended: the same first-match order, each two-state pattern matching in
\* either spelling of the ket, with ">" or with "⟩".
C25_FirstMatchBothKets ==
  ExtractReturned =>
    /\ input_state \in InputStates
    /\ input_state = FirstMatch(query, {">", "⟩"})

\* a query holding two patterns, the later one of the list first in the text
C25_Witness ==
  /\ ExtractReturned
  /\ query = "|0> + |1>" \o "|01⟩ + |11⟩"
  /\ input_state = "superposition_1_3"

(***************************************************************************)
(* Several tool calls in flight.                                           *)
(***************************************************************************)
InitializePcs == {"init_simulator", "init_openai", "init_ibm", "init_return"}

\* C21: with several tool calls in flight their steps do not interleave: no
\* call is ever parked part-way through its chain, a call starts only when no
\* other is running, and the registry is written only by the initialisation
\* of the running call, so no request sees handles written by another
\* request's initialisation part-way through its own chain.
C21_NoInterleaving ==
  /\ [](suspended = << >>)
  /\ [][(pc # "call" /\ pc' = "call") => pc = "idle"]_vars
  /\ [][registry' # registry => (pc \in InitializePcs /\ pc' \in InitializePcs)]_vars

\* a call is part-way through its chain while two more have been received
C21_Witness ==
  /\ pc = "execute"
  /\ name = "quantum_compute"
  /\ ChainTaken = <<"classify", "build">>
  /\ waiting = 2

\* C28: every quantum_compute call eventually returns a text response, when
\* every external call returns or raises: the chain attempts each execution
\* tier at most once and tries at most three remote channels in one
\* initialisation, so nothing is retried.
C28_QuantumComputeReturns ==
  /\ [](/\ pc \in Places \cup {"idle"}
        /\ Count(steps, "remote:backends") <= 1
        /\ Count(steps, "local:run") <= 1
        /\ Len(ChannelsTried) <= 3)
  /\ (pc = "quantum_compute") ~>
       (pc = "done" /\ name = "quantum_compute" /\ response.kind = "text")

\* a call that went through both tiers and has returned its report
C28_Witness ==
  /\ pc = "done"
  /\ name = "quantum_compute"
  /\ IsReport(response)
  /\ Count(steps, "remote:backends") = 1
  /\ Count(steps, "local:run") = 1

=============================================================================
